---- MODULE Spec2Model ----
(***************************************************************************)
(* The traffic-light kernel module src/mytraffic.c as a state machine.     *)
(*                                                                         *)
(* State: the traffic_light_t object (light), the five GPIO lines (gpio),  *)
(* the kernel tick counter (jiffies), the two debounce time stamps, and    *)
(* the position of a timer callback that is under way (cb), and three      *)
(* observation variables that describe the last step: the event it handed  *)
(* to handle_event (event), the mode handle_event found on entry           *)
(* (prev_mode), and the system call that returned (call); and the position *)
(* of module unloading (exit_pc), "loaded" until mytraffic_exit begins.    *)
(*                                                                         *)
(* Spec runs every handler as one step.  SpecWrap is Spec loaded shortly   *)
(* before jiffies wraps.  SpecTimerOnly has no button press, and           *)
(* SpecEventsFair no read or write of the device; in both a pending timer  *)
(* does expire.  SpecExit adds the unloading of the module.  SpecPreempt   *)
(* runs the timer                                                          *)
(* callback (a softirq) in the three parts of handle_event, between which  *)
(* a button interrupt may run: the code takes no lock and masks no         *)
(* interrupt.                                                              *)
(*                                                                         *)
(* unsigned long values (jiffies, the debounce stamps, timer expiry) are   *)
(* 32 bits wide on the ARM target.  A value u is represented by its two's  *)
(* complement reading: u for u < 2^31 and u - 2^32 otherwise, so that the  *)
(* wrap of the counter from 2^32 - 1 to 0 is the step from -1 to 0.        *)
(***************************************************************************)
EXTENDS Integers, Sequences, FiniteSets, TLC

VARIABLES
    light,                  \* traffic_light_t *light
    gpio,                   \* level of each GPIO line, 0 or 1
    jiffies,                \* kernel tick counter (unsigned long)
    last_btn_0_irq_time,    \* debounce stamp of button 0
    last_btn_1_irq_time,    \* debounce stamp of button 1
    cb,                     \* the timer callback under way: pc, next_mode, mode
    event,                  \* event passed to handle_event by the last step
    prev_mode,              \* light->mode when that handle_event began
    call,                   \* system call completed by the last step
    exit_pc                 \* how far mytraffic_exit has come

vars == <<light, gpio, jiffies, last_btn_0_irq_time, last_btn_1_irq_time,
          cb, event, prev_mode, call, exit_pc>>

(***************************************************************************)
(* Program constants.                                                      *)
(***************************************************************************)
RED == 67
YELLOW == 68
GREEN == 44
BTN_0 == 26
BTN_1 == 46
HZ == 100

Pins == {RED, YELLOW, GREEN, BTN_0, BTN_1}

NORMAL_MODE == "NORMAL_MODE"
FLASHING_RED == "FLASHING_RED"
FLASHING_YELLOW == "FLASHING_YELLOW"
PEDESTRIAN_MODE == "PEDESTRIAN_MODE"
LIGHTBULB_CHECK == "LIGHTBULB_CHECK"
opmode_t == {NORMAL_MODE, FLASHING_RED, FLASHING_YELLOW, PEDESTRIAN_MODE,
             LIGHTBULB_CHECK}

EVENT_BTN_0_PRESS == "EVENT_BTN_0_PRESS"
EVENT_BTN_1_PRESS == "EVENT_BTN_1_PRESS"
EVENT_BOTH_BTNS_PRESS == "EVENT_BOTH_BTNS_PRESS"
EVENT_TIMER_EXPIRE == "EVENT_TIMER_EXPIRE"
event_t == {EVENT_BTN_0_PRESS, EVENT_BTN_1_PRESS, EVENT_BOTH_BTNS_PRESS,
            EVENT_TIMER_EXPIRE}
NO_EVENT == "NO_EVENT"

(***************************************************************************)
(* Bounds of the model.                                                    *)
(***************************************************************************)
\* Jiffies that pass after the module is loaded.
MaxTicks == 5

\* Values of jiffies at module load: an ordinary one (Spec), and one shortly
\* before the 32-bit counter wraps (SpecWrap); Linux starts jiffies five
\* minutes before the wrap.
JiffiesAtLoad == 1000
JiffiesBeforeWrap == 0 - 8

(***************************************************************************)
(* unsigned long arithmetic.                                               *)
(***************************************************************************)
\* a + d modulo 2^32, on two's complement representatives, d >= 0.
ulong_add(a, d) ==
    IF a > 2147483647 - d
    THEN (a - 2147483647 - 1) + (d - 2147483647 - 1)
    ELSE a + d

\* a < b as unsigned values.
ulong_lt(a, b) ==
    IF (a < 0) = (b < 0) THEN a < b ELSE a >= 0

\* msecs_to_jiffies(m): m milliseconds in jiffies, rounded up.
msecs_to_jiffies(m) == (m * HZ + 999) \div 1000

(***************************************************************************)
(* The controller.  A "device" d is the pair [light, gpio] the handlers    *)
(* read and write; now is the value of jiffies when the handler runs.      *)
(***************************************************************************)
\* Mutant: Button0Press leaves PedestrianCall for Normal.
state_transition_table_b0_to_normal(ev, mode) ==
    CASE ev = EVENT_BTN_0_PRESS ->
            (CASE mode = NORMAL_MODE -> FLASHING_RED
               [] mode = FLASHING_RED -> FLASHING_YELLOW
               [] mode = FLASHING_YELLOW -> NORMAL_MODE
               [] mode = PEDESTRIAN_MODE -> NORMAL_MODE
               [] mode = LIGHTBULB_CHECK -> NORMAL_MODE)
      [] ev = EVENT_BTN_1_PRESS ->
            (CASE mode = NORMAL_MODE -> PEDESTRIAN_MODE
               [] mode = FLASHING_RED -> FLASHING_RED
               [] mode = FLASHING_YELLOW -> FLASHING_YELLOW
               [] mode = PEDESTRIAN_MODE -> PEDESTRIAN_MODE
               [] mode = LIGHTBULB_CHECK -> NORMAL_MODE)
      [] ev = EVENT_BOTH_BTNS_PRESS -> LIGHTBULB_CHECK
      [] ev = EVENT_TIMER_EXPIRE ->
            (CASE mode = NORMAL_MODE -> NORMAL_MODE
               [] mode = FLASHING_RED -> FLASHING_RED
               [] mode = FLASHING_YELLOW -> FLASHING_YELLOW
               [] mode = PEDESTRIAN_MODE -> NORMAL_MODE
               [] mode = LIGHTBULB_CHECK -> LIGHTBULB_CHECK)

state_transition_table(ev, mode) ==
    CASE ev = EVENT_BTN_0_PRESS ->
            (CASE mode = NORMAL_MODE -> FLASHING_RED
               [] mode = FLASHING_RED -> FLASHING_YELLOW
               [] mode = FLASHING_YELLOW -> NORMAL_MODE
               [] mode = PEDESTRIAN_MODE -> PEDESTRIAN_MODE
               [] mode = LIGHTBULB_CHECK -> NORMAL_MODE)
      [] ev = EVENT_BTN_1_PRESS ->
            (CASE mode = NORMAL_MODE -> PEDESTRIAN_MODE
               [] mode = FLASHING_RED -> FLASHING_RED
               [] mode = FLASHING_YELLOW -> FLASHING_YELLOW
               [] mode = PEDESTRIAN_MODE -> PEDESTRIAN_MODE
               [] mode = LIGHTBULB_CHECK -> NORMAL_MODE)
      [] ev = EVENT_BOTH_BTNS_PRESS -> LIGHTBULB_CHECK
      [] ev = EVENT_TIMER_EXPIRE ->
            (CASE mode = NORMAL_MODE -> NORMAL_MODE
               [] mode = FLASHING_RED -> FLASHING_RED
               [] mode = FLASHING_YELLOW -> FLASHING_YELLOW
               [] mode = PEDESTRIAN_MODE -> NORMAL_MODE
               [] mode = LIGHTBULB_CHECK -> LIGHTBULB_CHECK)

\* mod_timer(&light->timer, expires): replaces any pending deadline.
mod_timer(l, expires) ==
    [l EXCEPT !.timer = [pending |-> TRUE, expires |-> expires]]

gpio_set_value(g, pin, on) == [g EXCEPT ![pin] = IF on THEN 1 ELSE 0]

set_light_status(d) ==
    [d EXCEPT !.gpio =
        gpio_set_value(
            gpio_set_value(
                gpio_set_value(d.gpio, RED, d.light.status.red),
                YELLOW, d.light.status.yellow),
            GREEN, d.light.status.green)]

\* Mutant: no default to green when all lights are off.
handle_normal_mode_no_default(d, now) ==
    LET l == d.light IN
    set_light_status([d EXCEPT !.light =
        IF l.status.green
        THEN mod_timer([l EXCEPT !.status.green = FALSE, !.status.yellow = TRUE],
                       ulong_add(now, HZ \div l.cycle_rate))
        ELSE IF l.status.yellow /\ ~l.pedestrian_present
        THEN mod_timer([l EXCEPT !.status.yellow = FALSE, !.status.red = TRUE],
                       ulong_add(now, (2 * HZ) \div l.cycle_rate))
        ELSE IF l.status.red
        THEN mod_timer([l EXCEPT !.status.red = FALSE, !.status.green = TRUE],
                       ulong_add(now, (3 * HZ) \div l.cycle_rate))
        ELSE l])

\* Mutant: the red phase is armed for 3 cycles.
handle_normal_mode_long_red(d, now) ==
    LET l == d.light IN
    set_light_status([d EXCEPT !.light =
        IF l.status.green
        THEN mod_timer([l EXCEPT !.status.green = FALSE, !.status.yellow = TRUE],
                       ulong_add(now, HZ \div l.cycle_rate))
        ELSE IF l.status.yellow /\ ~l.pedestrian_present
        THEN mod_timer([l EXCEPT !.status.yellow = FALSE, !.status.red = TRUE],
                       ulong_add(now, (3 * HZ) \div l.cycle_rate))
        ELSE IF l.status.red
        THEN mod_timer([l EXCEPT !.status.red = FALSE, !.status.green = TRUE],
                       ulong_add(now, (3 * HZ) \div l.cycle_rate))
        ELSE IF ~l.status.red /\ ~l.status.yellow /\ ~l.status.green
        THEN mod_timer([l EXCEPT !.status.green = TRUE],
                       ulong_add(now, (3 * HZ) \div l.cycle_rate))
        ELSE l])

handle_normal_mode(d, now) ==
    LET l == d.light IN
    set_light_status([d EXCEPT !.light =
        IF l.status.green
        THEN mod_timer([l EXCEPT !.status.green = FALSE, !.status.yellow = TRUE],
                       ulong_add(now, HZ \div l.cycle_rate))
        ELSE IF l.status.yellow /\ ~l.pedestrian_present
        THEN mod_timer([l EXCEPT !.status.yellow = FALSE, !.status.red = TRUE],
                       ulong_add(now, (2 * HZ) \div l.cycle_rate))
        ELSE IF l.status.red
        THEN mod_timer([l EXCEPT !.status.red = FALSE, !.status.green = TRUE],
                       ulong_add(now, (3 * HZ) \div l.cycle_rate))
        ELSE IF ~l.status.red /\ ~l.status.yellow /\ ~l.status.green
        THEN mod_timer([l EXCEPT !.status.green = TRUE],
                       ulong_add(now, (3 * HZ) \div l.cycle_rate))
        ELSE l])

handle_flashing_red(d, now) ==
    LET l == d.light IN
    set_light_status([d EXCEPT !.light =
        mod_timer([l EXCEPT !.status.red = ~l.status.red,
                            !.status.yellow = FALSE,
                            !.status.green = FALSE],
                  ulong_add(now, HZ \div l.cycle_rate))])

handle_flashing_yellow(d, now) ==
    LET l == d.light IN
    set_light_status([d EXCEPT !.light =
        mod_timer([l EXCEPT !.status.yellow = ~l.status.yellow,
                            !.status.red = FALSE,
                            !.status.green = FALSE],
                  ulong_add(now, HZ \div l.cycle_rate))])

\* Mutant: the stop phase of a pedestrian call is the ordinary one.
handle_pedestrian_mode_ordinary_stop(d, now) ==
    LET l == d.light IN
    IF l.status.yellow
    THEN set_light_status([d EXCEPT !.light =
            mod_timer([l EXCEPT !.status.red = TRUE, !.status.yellow = FALSE,
                                !.status.green = FALSE],
                      ulong_add(now, (2 * HZ) \div l.cycle_rate))])
    ELSE d

handle_pedestrian_mode(d, now) ==
    LET l == d.light IN
    IF l.status.yellow
    THEN set_light_status([d EXCEPT !.light =
            mod_timer([l EXCEPT !.status.red = TRUE, !.status.green = FALSE],
                      ulong_add(now, (5 * HZ) \div l.cycle_rate))])
    ELSE d

\* Mutant: the release does not reset the cycle rate.
handle_lightbulb_check_keeps_rate(d, now) ==
    LET on == set_light_status([d EXCEPT !.light.status =
                    [red |-> TRUE, yellow |-> TRUE, green |-> TRUE]])
    IN
    IF on.gpio[BTN_0] = 0 /\ on.gpio[BTN_1] = 0
    THEN set_light_status([on EXCEPT !.light =
            mod_timer([on.light EXCEPT !.status.red = FALSE,
                                       !.status.yellow = FALSE,
                                       !.mode = NORMAL_MODE],
                      ulong_add(now, (3 * HZ) \div on.light.cycle_rate))])
    ELSE [on EXCEPT !.light = mod_timer(on.light, ulong_add(now, msecs_to_jiffies(10)))]

handle_lightbulb_check(d, now) ==
    LET on == set_light_status([d EXCEPT !.light.status =
                    [red |-> TRUE, yellow |-> TRUE, green |-> TRUE]])
    IN
    IF on.gpio[BTN_0] = 0 /\ on.gpio[BTN_1] = 0
    THEN set_light_status([on EXCEPT !.light =
            mod_timer([on.light EXCEPT !.cycle_rate = 1,
                                       !.status.red = FALSE,
                                       !.status.yellow = FALSE,
                                       !.mode = NORMAL_MODE],
                      ulong_add(now, (3 * HZ) \div 1))])
    ELSE [on EXCEPT !.light = mod_timer(on.light, ulong_add(now, msecs_to_jiffies(10)))]

\* handle_event, first part: the table lookup and the pedestrian override.
handle_event_next_mode(l, ev) ==
    IF l.pedestrian_present /\ l.status.yellow /\ ~l.status.red
    THEN PEDESTRIAN_MODE
    ELSE state_transition_table(ev, l.mode)

\* handle_event, second part: end of the extended stop phase, mode update.
handle_event_set_mode(l, next_mode) ==
    IF l.pedestrian_present /\ l.status.red /\ l.status.yellow
    THEN [l EXCEPT !.status.red = FALSE,
                   !.status.yellow = FALSE,
                   !.pedestrian_present = FALSE,
                   !.mode = next_mode]
    ELSE [l EXCEPT !.mode = next_mode]

\* The switch of handle_event over next_mode.
handle_event_switch(d, next_mode, now) ==
    CASE next_mode = NORMAL_MODE -> handle_normal_mode(d, now)
      [] next_mode = FLASHING_RED -> handle_flashing_red(d, now)
      [] next_mode = FLASHING_YELLOW -> handle_flashing_yellow(d, now)
      [] next_mode = PEDESTRIAN_MODE ->
            handle_pedestrian_mode(
                [d EXCEPT !.light.pedestrian_present = TRUE], now)
      [] next_mode = LIGHTBULB_CHECK ->
            handle_lightbulb_check(
                [d EXCEPT !.light.pedestrian_present = FALSE], now)

\* Mutant: no anti-jitter return, the handler runs for every event.
handle_event_dispatch_always(d, ev, next_mode, now) ==
    handle_event_switch(d, next_mode, now)

\* handle_event, third part: the anti-jitter return and the mode handler.
handle_event_dispatch(d, ev, next_mode, now) ==
    IF ev = EVENT_BTN_1_PRESS /\ d.light.mode \in {FLASHING_RED, FLASHING_YELLOW}
    THEN d
    ELSE handle_event_switch(d, next_mode, now)

handle_event(d, ev, now) ==
    LET next_mode == handle_event_next_mode(d.light, ev) IN
    handle_event_dispatch(
        [d EXCEPT !.light = handle_event_set_mode(d.light, next_mode)],
        ev, next_mode, now)

(***************************************************************************)
(* Initial state: mytraffic_init after gpio_init.                          *)
(***************************************************************************)
NO_CALL == [op |-> "none"]
NO_MODE == "NO_MODE"
CB_IDLE == [pc |-> "idle", next_mode |-> NO_MODE, mode |-> NO_MODE]

mytraffic_init(now) ==
    mod_timer([mode |-> NORMAL_MODE,
               cycle_rate |-> 1,
               status |-> [red |-> TRUE, yellow |-> FALSE, green |-> FALSE],
               pedestrian_present |-> FALSE,
               timer |-> [pending |-> FALSE, expires |-> 0]],
              ulong_add(now, (2 * HZ) \div 1))

\* gpio_init drives the three outputs low; the buttons are inputs.
gpio_init(btn0, btn1) ==
    [p \in Pins |-> CASE p = BTN_0 -> btn0 [] p = BTN_1 -> btn1 [] OTHER -> 0]

InitAt(j0) ==
    /\ jiffies = j0
    /\ \E b0, b1 \in {0, 1} : gpio = gpio_init(b0, b1)
    /\ light = mytraffic_init(jiffies)
    /\ last_btn_0_irq_time = 0
    /\ last_btn_1_irq_time = 0
    /\ cb = CB_IDLE
    /\ event = NO_EVENT
    /\ prev_mode = NO_MODE
    /\ call = [op |-> "init_module", ret |-> 0]
    /\ exit_pc = "loaded"

Init == InitAt(JiffiesAtLoad)

InitWrap == InitAt(JiffiesBeforeWrap)

(***************************************************************************)
(* Steps.                                                                  *)
(***************************************************************************)
\* One jiffy passes.
Tick ==
    /\ \E j0 \in {JiffiesAtLoad, JiffiesBeforeWrap} :
          jiffies >= j0 /\ jiffies < j0 + MaxTicks
    /\ jiffies' = ulong_add(jiffies, 1)
    /\ event' = NO_EVENT
    /\ prev_mode' = NO_MODE
    /\ call' = NO_CALL
    /\ UNCHANGED <<exit_pc, cb, light, gpio, last_btn_0_irq_time, last_btn_1_irq_time>>

\* A button is released: the line falls, no interrupt (IRQF_TRIGGER_RISING).
ButtonRelease ==
    /\ \E b \in {BTN_0, BTN_1} :
          /\ gpio[b] = 1
          /\ gpio' = [gpio EXCEPT ![b] = 0]
    /\ event' = NO_EVENT
    /\ prev_mode' = NO_MODE
    /\ call' = NO_CALL
    /\ UNCHANGED <<exit_pc, cb, light, jiffies, last_btn_0_irq_time, last_btn_1_irq_time>>

\* The debounce test of both interrupt handlers.
debounced(current_time, last_irq_time) ==
    ulong_lt(current_time, ulong_add(last_irq_time, msecs_to_jiffies(50)))

\* Mutant: the level of the other button is not looked at.
classify_single_only(g, other, single) == single

\* The event an accepted edge is classified as, from the other button's level.
classify(g, other, single) ==
    IF g[other] = 1 THEN EVENT_BOTH_BTNS_PRESS ELSE single

\* Rising edge on button 0 and its interrupt handler.
btn_0_irq_handler ==
    /\ gpio[BTN_0] = 0
    /\ LET g == [gpio EXCEPT ![BTN_0] = 1] IN
       IF debounced(jiffies, last_btn_0_irq_time)
       THEN /\ gpio' = g
            /\ event' = NO_EVENT
            /\ prev_mode' = NO_MODE
            /\ UNCHANGED <<light, last_btn_0_irq_time>>
       ELSE LET ev == classify(g, BTN_1, EVENT_BTN_0_PRESS)
                d == handle_event([light |-> light, gpio |-> g], ev, jiffies)
            IN /\ last_btn_0_irq_time' = jiffies
               /\ light' = d.light
               /\ gpio' = d.gpio
               /\ event' = ev
               /\ prev_mode' = light.mode
    /\ call' = NO_CALL
    /\ UNCHANGED <<exit_pc, cb, jiffies, last_btn_1_irq_time>>

\* Rising edge on button 1 and its interrupt handler.
btn_1_irq_handler ==
    /\ gpio[BTN_1] = 0
    /\ LET g == [gpio EXCEPT ![BTN_1] = 1] IN
       IF debounced(jiffies, last_btn_1_irq_time)
       THEN /\ gpio' = g
            /\ event' = NO_EVENT
            /\ prev_mode' = NO_MODE
            /\ UNCHANGED <<light, last_btn_1_irq_time>>
       ELSE LET ev == classify(g, BTN_0, EVENT_BTN_1_PRESS)
                d == handle_event([light |-> light, gpio |-> g], ev, jiffies)
            IN /\ last_btn_1_irq_time' = jiffies
               /\ light' = d.light
               /\ gpio' = d.gpio
               /\ event' = ev
               /\ prev_mode' = light.mode
    /\ call' = NO_CALL
    /\ UNCHANGED <<exit_pc, cb, jiffies, last_btn_0_irq_time>>

\* The pending timer fires: the kernel detaches it and runs the callback.
\* The model does not tie the moment of expiry to jiffies: the callback
\* may run at any point while a timer is pending.
mytraffic_timer_callback ==
    /\ cb.pc = "idle"
    /\ light.timer.pending
    /\ LET d == handle_event(
                    [light |-> [light EXCEPT !.timer.pending = FALSE],
                     gpio |-> gpio],
                    EVENT_TIMER_EXPIRE, jiffies)
       IN /\ light' = d.light
          /\ gpio' = d.gpio
    /\ event' = EVENT_TIMER_EXPIRE
    /\ prev_mode' = light.mode
    /\ call' = NO_CALL
    /\ UNCHANGED <<exit_pc, cb, jiffies, last_btn_0_irq_time, last_btn_1_irq_time>>

(***************************************************************************)
(* The character device: read reports a snapshot, write sets the rate.     *)
(***************************************************************************)
DigitChars == <<"0", "1", "2", "3", "4", "5", "6", "7", "8", "9">>

isdigit(c) == \E i \in 1..10 : DigitChars[i] = c

digit_value(c) == (CHOOSE i \in 1..10 : DigitChars[i] = c) - 1

isspace(c) == c \in {" ", "\n", "\t"}

RECURSIVE skip_spaces(_)
skip_spaces(s) ==
    IF s # <<>> /\ isspace(Head(s)) THEN skip_spaces(Tail(s)) ELSE s

\* The value of the leading digits of s, continuing from acc.
RECURSIVE strtol_digits(_, _)
strtol_digits(s, acc) ==
    IF s # <<>> /\ isdigit(Head(s))
    THEN strtol_digits(Tail(s), 10 * acc + digit_value(Head(s)))
    ELSE acc

\* sscanf(kbuf, "%d", &new_rate): n is the number of conversions made.
sscanf_d(kbuf) ==
    LET t == skip_spaces(kbuf)
        neg == t # <<>> /\ Head(t) = "-"
        u == IF neg THEN Tail(t) ELSE t
    IN IF u = <<>> \/ ~isdigit(Head(u))
       THEN [n |-> 0, value |-> 0]
       ELSE [n |-> 1,
             value |-> IF neg THEN 0 - strtol_digits(u, 0) ELSE strtol_digits(u, 0)]

\* sprintf("%d", n): the decimal digits of n.
RECURSIVE sprintf_d(_)
sprintf_d(n) ==
    IF n < 0 THEN <<"-">> \o sprintf_d(0 - n)
    ELSE IF n < 10 THEN <<DigitChars[n + 1]>>
    ELSE sprintf_d(n \div 10) \o <<DigitChars[(n % 10) + 1]>>

mode_name(mode) ==
    CASE mode = NORMAL_MODE -> "normal"
      [] mode = FLASHING_RED -> "flashing-red"
      [] mode = FLASHING_YELLOW -> "flashing-yellow"
      [] mode = PEDESTRIAN_MODE -> "pedestrian-mode"
      [] OTHER -> "lightbulb-check"

on_off(b) == IF b THEN "on" ELSE "off"

yes_no(b) == IF b THEN "yes" ELSE "no"

\* The text mytraffic_read formats into tbuf, field by field.
format_status(l) ==
    [mode |-> mode_name(l.mode),
     rate |-> sprintf_d(l.cycle_rate),
     red |-> on_off(l.status.red),
     yellow |-> on_off(l.status.yellow),
     green |-> on_off(l.status.green),
     pedestrian |-> yes_no(l.pedestrian_present)]

\* tbptr - tbuf: the length of the formatted text.
status_len(t) ==
    Len("Operational mode: ") + Len(t.mode) + 1
    + Len("Cycle rate: ") + Len(t.rate) + Len(" Hz") + 1
    + Len("Red status: ") + Len(t.red) + 1
    + Len("Yellow status: ") + Len(t.yellow) + 1
    + Len("Green status: ") + Len(t.green) + 1
    + Len("Pedestrian present?: ") + Len(t.pedestrian) + 1

\* Arguments read is called with: the file position and the buffer size.
ReadPositions == {0, 1}
ReadCounts == {16, 256}

\* What read returns: ret bytes, the first ret characters of text.
mytraffic_read_result(l, f_pos, count) ==
    IF f_pos > 0
    THEN [op |-> "read", ret |-> 0, f_pos |-> f_pos]
    ELSE LET tbuf == format_status(l)
             len == status_len(tbuf)
             n == IF count > len - f_pos THEN len - f_pos ELSE count
         IN [op |-> "read", ret |-> n, f_pos |-> f_pos + n, text |-> tbuf]

mytraffic_read ==
    /\ \E f_pos \in ReadPositions, count \in ReadCounts :
          call' = mytraffic_read_result(light, f_pos, count)
    /\ event' = NO_EVENT
    /\ prev_mode' = NO_MODE
    /\ UNCHANGED <<exit_pc, cb, light, gpio, jiffies, last_btn_0_irq_time, last_btn_1_irq_time>>

\* Buffers written to the device; count is the length of the buffer.
WriteBufs ==
    { <<"1">>, <<"9", "\n">>, <<"0">>, <<"1", "0">>, <<"a", "b", "c">>,
      [i \in 1..256 |-> "2"] }

\* Mutant: an accepted write pushes the pending deadline by one new cycle.
mytraffic_write_result_moves_deadline(l, buf) ==
    LET count == Len(buf) IN
    IF count > 256 - 1
    THEN [light |-> l, ret |-> -1]
    ELSE LET r == sscanf_d(buf) IN
         IF r.n = 1
         THEN IF r.value < 1 \/ r.value > 9
              THEN [light |-> l, ret |-> -1]
              ELSE [light |-> [l EXCEPT !.cycle_rate = r.value,
                                        !.timer.expires =
                                            ulong_add(@, HZ \div r.value)],
                    ret |-> count]
         ELSE [light |-> l, ret |-> -1]

\* Mutant: the range test lets 10 through.
mytraffic_write_result_accepts_ten(l, buf) ==
    LET count == Len(buf) IN
    IF count > 256 - 1
    THEN [light |-> l, ret |-> -1]
    ELSE LET r == sscanf_d(buf) IN
         IF r.n = 1
         THEN IF r.value < 1 \/ r.value > 10
              THEN [light |-> l, ret |-> -1]
              ELSE [light |-> [l EXCEPT !.cycle_rate = r.value], ret |-> count]
         ELSE [light |-> l, ret |-> -1]

\* Mutant: the range test lets 0 through.
mytraffic_write_result_accepts_zero(l, buf) ==
    LET count == Len(buf) IN
    IF count > 256 - 1
    THEN [light |-> l, ret |-> -1]
    ELSE LET r == sscanf_d(buf) IN
         IF r.n = 1
         THEN IF r.value < 0 \/ r.value > 9
              THEN [light |-> l, ret |-> -1]
              ELSE [light |-> [l EXCEPT !.cycle_rate = r.value], ret |-> count]
         ELSE [light |-> l, ret |-> -1]

\* What write does to the light and returns.
mytraffic_write_result(l, buf) ==
    LET count == Len(buf) IN
    IF count > 256 - 1
    THEN [light |-> l, ret |-> -1]
    ELSE LET r == sscanf_d(buf) IN
         IF r.n = 1
         THEN IF r.value < 1 \/ r.value > 9
              THEN [light |-> l, ret |-> -1]
              ELSE [light |-> [l EXCEPT !.cycle_rate = r.value], ret |-> count]
         ELSE [light |-> l, ret |-> -1]

mytraffic_write ==
    /\ \E buf \in WriteBufs :
          LET w == mytraffic_write_result(light, buf) IN
          /\ light' = w.light
          /\ call' = [op |-> "write", buf |-> buf, ret |-> w.ret]
    /\ event' = NO_EVENT
    /\ prev_mode' = NO_MODE
    /\ UNCHANGED <<exit_pc, cb, gpio, jiffies, last_btn_0_irq_time, last_btn_1_irq_time>>

Next ==
    \/ Tick
    \/ ButtonRelease
    \/ btn_0_irq_handler
    \/ btn_1_irq_handler
    \/ mytraffic_timer_callback
    \/ mytraffic_read
    \/ mytraffic_write

Spec == Init /\ [][Next]_vars

(***************************************************************************)
(* The timer callback in the three parts of handle_event.  On the single   *)
(* core of the target a hard interrupt preempts the softirq that runs the  *)
(* callback, and both preempt the process that reads or writes the device: *)
(* the button handlers run as one step at any point, read and write run    *)
(* only while no callback is under way.                                    *)
(***************************************************************************)
timer_callback_next_mode ==
    /\ cb.pc = "idle"
    /\ light.timer.pending
    /\ light' = [light EXCEPT !.timer.pending = FALSE]
    /\ cb' = [pc |-> "set_mode",
              next_mode |-> handle_event_next_mode(light, EVENT_TIMER_EXPIRE),
              mode |-> light.mode]
    /\ event' = EVENT_TIMER_EXPIRE
    /\ prev_mode' = light.mode
    /\ call' = NO_CALL
    /\ UNCHANGED <<exit_pc, gpio, jiffies, last_btn_0_irq_time, last_btn_1_irq_time>>

timer_callback_set_mode ==
    /\ cb.pc = "set_mode"
    /\ light' = handle_event_set_mode(light, cb.next_mode)
    /\ cb' = [cb EXCEPT !.pc = "dispatch"]
    /\ event' = EVENT_TIMER_EXPIRE
    /\ prev_mode' = cb.mode
    /\ call' = NO_CALL
    /\ UNCHANGED <<exit_pc, gpio, jiffies, last_btn_0_irq_time, last_btn_1_irq_time>>

timer_callback_dispatch ==
    /\ cb.pc = "dispatch"
    /\ LET d == handle_event_dispatch([light |-> light, gpio |-> gpio],
                                      EVENT_TIMER_EXPIRE, cb.next_mode, jiffies)
       IN /\ light' = d.light
          /\ gpio' = d.gpio
    /\ cb' = CB_IDLE
    /\ event' = EVENT_TIMER_EXPIRE
    /\ prev_mode' = cb.mode
    /\ call' = NO_CALL
    /\ UNCHANGED <<exit_pc, jiffies, last_btn_0_irq_time, last_btn_1_irq_time>>

NextPreempt ==
    \/ Tick
    \/ ButtonRelease
    \/ btn_0_irq_handler
    \/ btn_1_irq_handler
    \/ timer_callback_next_mode
    \/ timer_callback_set_mode
    \/ timer_callback_dispatch
    \/ (cb.pc = "idle" /\ mytraffic_read)
    \/ (cb.pc = "idle" /\ mytraffic_write)

SpecPreempt == Init /\ [][NextPreempt]_vars

SpecWrap == InitWrap /\ [][Next]_vars

(***************************************************************************)
(* Vocabulary of the properties.                                           *)
(***************************************************************************)
OnlyRed == [red |-> TRUE, yellow |-> FALSE, green |-> FALSE]
OnlyYellow == [red |-> FALSE, yellow |-> TRUE, green |-> FALSE]
OnlyGreen == [red |-> FALSE, yellow |-> FALSE, green |-> TRUE]
RedAndYellow == [red |-> TRUE, yellow |-> TRUE, green |-> FALSE]
AllOn == [red |-> TRUE, yellow |-> TRUE, green |-> TRUE]
AllOff == [red |-> FALSE, yellow |-> FALSE, green |-> FALSE]

\* The levels last driven on the three output lines, as a pattern.
Driven(g) == [red |-> g[RED] = 1, yellow |-> g[YELLOW] = 1, green |-> g[GREEN] = 1]

\* A timer is pending that was armed at jiffies value now for k cycles at rate r.
ArmedFor(l, now, k, r) ==
    l.timer = [pending |-> TRUE, expires |-> ulong_add(now, (k * HZ) \div r)]

(***************************************************************************)
(* C1: in every reachable state the light pattern satisfies the per-mode   *)
(* exclusivity rules: in Normal and PedestrianCall exactly one light is    *)
(* on, or red and yellow are on with green off while pedestrian_present    *)
(* is set; in FlashingRed yellow and green are off; in FlashingYellow red  *)
(* and green are off; in LightbulbCheck all three are on.                  *)
(***************************************************************************)
C1_PatternPerMode ==
    LET st == light.status IN
    /\ light.mode \in {NORMAL_MODE, PEDESTRIAN_MODE} =>
          \/ st \in {OnlyRed, OnlyYellow, OnlyGreen}
          \/ st = RedAndYellow /\ light.pedestrian_present
    /\ light.mode = FLASHING_RED => ~st.yellow /\ ~st.green
    /\ light.mode = FLASHING_YELLOW => ~st.red /\ ~st.green
    /\ light.mode = LIGHTBULB_CHECK => st = AllOn

(***************************************************************************)
(* C2: a step that handles BothButtonsPress ends in LightbulbCheck with    *)
(* red, yellow and green on and driven, and pedestrian_present false,      *)
(* whatever the state it was handled in.                                   *)
(***************************************************************************)
C2_BothButtonsFirst ==
    event = EVENT_BOTH_BTNS_PRESS =>
        /\ light.mode = LIGHTBULB_CHECK
        /\ light.status = AllOn
        /\ Driven(gpio) = AllOn
        /\ ~light.pedestrian_present

(***************************************************************************)
(* C3: pedestrian overlay.  A Button1Press taken in Normal during green    *)
(* sets pedestrian_present and leaves green and its timer alone; the       *)
(* TimerExpire that ends green shows yellow alone; the TimerExpire that    *)
(* ends yellow while pedestrian_present is set shows red and yellow        *)
(* together, armed for 5 cycles (not red alone for 2); the TimerExpire     *)
(* that ends that phase clears pedestrian_present and shows green alone,   *)
(* armed for 3 cycles.                                                     *)
(***************************************************************************)
C3_PedestrianOverlay ==
    [][/\ ( /\ event' = EVENT_BTN_1_PRESS
            /\ light.mode = NORMAL_MODE
            /\ light.status = OnlyGreen )
          => /\ light'.pedestrian_present
             /\ light'.status = OnlyGreen
             /\ light'.timer = light.timer
       /\ ( /\ event' = EVENT_TIMER_EXPIRE
            /\ light.pedestrian_present
            /\ light.status = OnlyGreen )
          => /\ light'.pedestrian_present
             /\ light'.status = OnlyYellow
             /\ Driven(gpio') = OnlyYellow
             /\ ArmedFor(light', jiffies, 1, light.cycle_rate)
       /\ ( /\ event' = EVENT_TIMER_EXPIRE
            /\ light.pedestrian_present
            /\ light.status = OnlyYellow )
          => /\ light'.pedestrian_present
             /\ light'.status = RedAndYellow
             /\ Driven(gpio') = RedAndYellow
             /\ ArmedFor(light', jiffies, 5, light.cycle_rate)
       /\ ( /\ event' = EVENT_TIMER_EXPIRE
            /\ light.pedestrian_present
            /\ light.status = RedAndYellow )
          => /\ ~light'.pedestrian_present
             /\ light'.status = OnlyGreen
             /\ Driven(gpio') = OnlyGreen
             /\ ArmedFor(light', jiffies, 3, light.cycle_rate)
      ]_vars

\* The extended stop phase has just been entered by a TimerExpire.
C3_Witness ==
    /\ event = EVENT_TIMER_EXPIRE
    /\ prev_mode = NORMAL_MODE
    /\ light.mode = PEDESTRIAN_MODE
    /\ light.pedestrian_present
    /\ light.status = RedAndYellow
    /\ ArmedFor(light, jiffies, 5, light.cycle_rate)

(***************************************************************************)
(* C4: anti-jitter.  A step that handles Button1Press and ends in          *)
(* FlashingRed or FlashingYellow leaves the whole controller object (mode, *)
(* pattern, rate, pedestrian_present, pending timer deadline) and the      *)
(* three light outputs unchanged; so in FlashingRed no Button1Press        *)
(* changes the red light.                                                  *)
(***************************************************************************)
C4_AntiJitter ==
    [][( /\ event' = EVENT_BTN_1_PRESS
         /\ light'.mode \in {FLASHING_RED, FLASHING_YELLOW} )
       => /\ light' = light
          /\ Driven(gpio') = Driven(gpio)
      ]_vars

\* A Button1Press was handled in FlashingRed while red was on.
C4_Witness ==
    /\ event = EVENT_BTN_1_PRESS
    /\ prev_mode = FLASHING_RED
    /\ light.mode = FLASHING_RED
    /\ light.status = OnlyRed

(***************************************************************************)
(* C5: a write of the decimal text of r, 1 <= r <= 9 (with or without a    *)
(* trailing newline), is acknowledged with the number of bytes written and *)
(* sets cycle_rate to r and nothing else, and a full status read that      *)
(* follows it with no step in between reports r; a write of 0, of 10 or of *)
(* a non-numeric string returns an error and changes nothing.              *)
(***************************************************************************)
Decimal(r) == {sprintf_d(r), sprintf_d(r) \o <<"\n">>}

\* The texts of the rates 1..9, and the texts the claim names as rejected.
RateTexts == [r \in 1..9 |-> Decimal(r)]
RejectedTexts == Decimal(0) \cup Decimal(10) \cup {<<"a", "b", "c">>}

FullRead(c) == c.op = "read" /\ c.ret > 0 /\ c.ret = status_len(c.text)

C5_RateWriteRead ==
    [][/\ call'.op = "write" =>
            /\ \A r \in 1..9 :
                  call'.buf \in RateTexts[r] =>
                      /\ call'.ret = Len(call'.buf)
                      /\ light' = [light EXCEPT !.cycle_rate = r]
                      /\ gpio' = gpio
            /\ call'.buf \in RejectedTexts =>
                      /\ call'.ret < 0
                      /\ light' = light
                      /\ gpio' = gpio
       /\ (call.op = "write" /\ call.ret > 0 /\ FullRead(call')) =>
            \A r \in 1..9 :
                  call.buf \in RateTexts[r] => call'.text.rate = sprintf_d(r)
      ]_vars

\* The rate 9 was written with a trailing newline and acknowledged.
C5_Witness ==
    /\ call.op = "write"
    /\ call.buf = <<"9", "\n">>
    /\ call.ret = 2
    /\ light.cycle_rate = 9

(***************************************************************************)
(* C6: lightbulb-check exit.  The TimerExpire poll that runs in            *)
(* LightbulbCheck and finds both buttons released ends with mode Normal,   *)
(* cycle_rate 1, green on with red and yellow off (in the pattern and on   *)
(* the outputs), pedestrian_present false, and the timer armed for 3       *)
(* cycles at 1 Hz.                                                         *)
(***************************************************************************)
C6_LightbulbExit ==
    ( /\ event = EVENT_TIMER_EXPIRE
      /\ prev_mode = LIGHTBULB_CHECK
      /\ gpio[BTN_0] = 0
      /\ gpio[BTN_1] = 0 )
    => /\ light.mode = NORMAL_MODE
       /\ light.cycle_rate = 1
       /\ light.status = OnlyGreen
       /\ Driven(gpio) = OnlyGreen
       /\ ~light.pedestrian_present
       /\ ArmedFor(light, jiffies, 3, 1)

\* The poll has just found both buttons released.
C6_Witness ==
    /\ event = EVENT_TIMER_EXPIRE
    /\ prev_mode = LIGHTBULB_CHECK
    /\ gpio[BTN_0] = 0
    /\ gpio[BTN_1] = 0
    /\ light.mode = NORMAL_MODE

(***************************************************************************)
(* C7: debounce.  An edge on a button that arrives less than the 50 ms     *)
(* window after the last accepted edge of the same button is discarded:    *)
(* no event, no change to the controller or the outputs, the stamp kept;   *)
(* an accepted edge produces one event and becomes the last accepted edge; *)
(* a button's stamp changes only by an accepted edge of that button.       *)
(***************************************************************************)
\* The time from stamp last to now, as unsigned long, is at least w jiffies.
WindowPassed(now, last, w) == ~(now - last \in 0..(w - 1))

EdgeOn(b) == gpio[b] = 0 /\ gpio'[b] = 1

DebounceOf(b, last, last_next, single) ==
    /\ EdgeOn(b) =>
          IF WindowPassed(jiffies, last, msecs_to_jiffies(50))
          THEN event' = NO_EVENT \/ (event' \in {single, EVENT_BOTH_BTNS_PRESS}
                                     /\ last_next = jiffies)
          ELSE /\ event' = NO_EVENT
               /\ light' = light
               /\ Driven(gpio') = Driven(gpio)
               /\ last_next = last
    /\ last_next # last => EdgeOn(b) /\ event' # NO_EVENT

C7_Debounce ==
    [][/\ DebounceOf(BTN_0, last_btn_0_irq_time, last_btn_0_irq_time',
                     EVENT_BTN_0_PRESS)
       /\ DebounceOf(BTN_1, last_btn_1_irq_time, last_btn_1_irq_time',
                     EVENT_BTN_1_PRESS)
      ]_vars

(***************************************************************************)
(* C9: base transition table.  For Button0Press, Button1Press and          *)
(* TimerExpire, when the pedestrian override does not apply and no         *)
(* lightbulb release is detected, the mode after the step is the entry of  *)
(* the table for the event and the mode before the step.                   *)
(***************************************************************************)
BaseTable(ev, mode) ==
    CASE ev = EVENT_BTN_0_PRESS ->
            (CASE mode = NORMAL_MODE -> FLASHING_RED
               [] mode = FLASHING_RED -> FLASHING_YELLOW
               [] mode = FLASHING_YELLOW -> NORMAL_MODE
               [] mode = PEDESTRIAN_MODE -> NORMAL_MODE
               [] mode = LIGHTBULB_CHECK -> NORMAL_MODE)
      [] ev = EVENT_BTN_1_PRESS ->
            (CASE mode = NORMAL_MODE -> PEDESTRIAN_MODE
               [] mode = FLASHING_RED -> FLASHING_RED
               [] mode = FLASHING_YELLOW -> FLASHING_YELLOW
               [] mode = PEDESTRIAN_MODE -> PEDESTRIAN_MODE
               [] mode = LIGHTBULB_CHECK -> NORMAL_MODE)
      [] ev = EVENT_TIMER_EXPIRE ->
            (CASE mode = NORMAL_MODE -> NORMAL_MODE
               [] mode = FLASHING_RED -> FLASHING_RED
               [] mode = FLASHING_YELLOW -> FLASHING_YELLOW
               [] mode = PEDESTRIAN_MODE -> NORMAL_MODE
               [] mode = LIGHTBULB_CHECK -> LIGHTBULB_CHECK)

\* A step that handles a single-button or timer event with no override.
BaseStep ==
    /\ event' \in {EVENT_BTN_0_PRESS, EVENT_BTN_1_PRESS, EVENT_TIMER_EXPIRE}
    /\ ~(light.pedestrian_present /\ light.status.yellow /\ ~light.status.red)
    /\ ~(event' = EVENT_TIMER_EXPIRE /\ light.mode = LIGHTBULB_CHECK
         /\ gpio[BTN_0] = 0 /\ gpio[BTN_1] = 0)

C9_BaseTable ==
    [][BaseStep => light'.mode = BaseTable(event', light.mode)]_vars

\* C9 as amended: the same table, except that Button0Press in PedestrianCall
\* stays in PedestrianCall.
AmendedTable(ev, mode) ==
    IF ev = EVENT_BTN_0_PRESS /\ mode = PEDESTRIAN_MODE
    THEN PEDESTRIAN_MODE
    ELSE BaseTable(ev, mode)

C9_BaseTableAmended ==
    [][BaseStep => light'.mode = AmendedTable(event', light.mode)]_vars

\* A Button0Press was handled in PedestrianCall and the mode stayed.
C9_Witness ==
    /\ event = EVENT_BTN_0_PRESS
    /\ prev_mode = PEDESTRIAN_MODE
    /\ light.mode = PEDESTRIAN_MODE

(***************************************************************************)
(* C10: the state created at startup is mode Normal, cycle_rate 1, green   *)
(* on with red and yellow off, a 3-cycle timer armed, pedestrian_present   *)
(* false.                                                                  *)
(***************************************************************************)
C10_InitialState ==
    call.op = "init_module" =>
        /\ light.mode = NORMAL_MODE
        /\ light.cycle_rate = 1
        /\ light.status = OnlyGreen
        /\ ArmedFor(light, jiffies, 3, 1)
        /\ ~light.pedestrian_present

(***************************************************************************)
(* C8: every event-handling step is indivisible: while a step is between   *)
(* its start and its end, no other context changes the controller object   *)
(* and no read or write of the device runs.                                *)
(***************************************************************************)
C8_StepIndivisible ==
    [][(cb.pc # "idle" /\ cb' = cb)
       => /\ light' = light
          /\ call'.op \notin {"read", "write"}
      ]_vars

(***************************************************************************)
(* C11: cycle_rate is between 1 and 9 in every reachable state, whatever   *)
(* rate writes (accepted or rejected), button events, timer expiries and   *)
(* lightbulb-check resets have happened.                                   *)
(***************************************************************************)
C11_RateInRange ==
    light.cycle_rate \in 1..9

\* A write was rejected while the rate was at its upper end.
C11_Witness ==
    /\ call.op = "write"
    /\ call.ret < 0
    /\ call.buf = <<"1", "0">>
    /\ light.cycle_rate = 9

(***************************************************************************)
(* C12: after every completed handle_event step, for every event, the      *)
(* levels last driven on the red, yellow and green lines equal the red,    *)
(* yellow and green fields of the light pattern.                           *)
(***************************************************************************)
C12_OutputsFollowPattern ==
    event # NO_EVENT => Driven(gpio) = light.status

(***************************************************************************)
(* C13: pedestrian_present becomes true only in a step that handles a      *)
(* Button1Press: a step that handles Button0Press, TimerExpire or          *)
(* BothButtonsPress and finds it false at the start of its mode dispatch   *)
(* (false on entry, or cleared with the extended stop phase at the start   *)
(* of the step) ends with it false; and it is false after the TimerExpire  *)
(* that completes the extended red+yellow phase.                           *)
(***************************************************************************)
\* pedestrian_present as the mode dispatch of the step finds it.
PresentAtDispatch ==
    light.pedestrian_present /\ ~(light.status.red /\ light.status.yellow)

C13_PresentOnlyAfterCall ==
    [][/\ ( /\ event' \in {EVENT_BTN_0_PRESS, EVENT_TIMER_EXPIRE,
                           EVENT_BOTH_BTNS_PRESS}
            /\ ~PresentAtDispatch )
          => ~light'.pedestrian_present
       /\ ( /\ event' = EVENT_TIMER_EXPIRE
            /\ light.pedestrian_present
            /\ light.status.red
            /\ light.status.yellow )
          => ~light'.pedestrian_present
      ]_vars

(***************************************************************************)
(* Unloading the module.  mytraffic_exit runs in process context in four   *)
(* parts; the timer callback (a softirq) may run between them for as long  *)
(* as the timer is pending, the button handlers until their interrupts are *)
(* freed.  gpio_set_value and gpio_get_value on a line that has been freed *)
(* still reach the pin.  The device cannot be open while the module is     *)
(* unloaded, so no read or write runs once mytraffic_exit has begun.       *)
(***************************************************************************)
\* free_irq(btn_1_irq), free_irq(btn_0_irq).
mytraffic_exit_free_irq ==
    /\ exit_pc = "loaded"
    /\ cb.pc = "idle"
    /\ exit_pc' = "irqs_freed"
    /\ event' = NO_EVENT
    /\ prev_mode' = NO_MODE
    /\ call' = NO_CALL
    /\ UNCHANGED <<cb, light, gpio, jiffies, last_btn_0_irq_time, last_btn_1_irq_time>>

\* gpio_free of the two inputs and the three outputs.
mytraffic_exit_gpio_free ==
    /\ exit_pc = "irqs_freed"
    /\ cb.pc = "idle"
    /\ exit_pc' = "gpios_freed"
    /\ event' = NO_EVENT
    /\ prev_mode' = NO_MODE
    /\ call' = NO_CALL
    /\ UNCHANGED <<cb, light, gpio, jiffies, last_btn_0_irq_time, last_btn_1_irq_time>>

\* del_timer_sync(&light->timer): the timer is no longer pending.
mytraffic_exit_del_timer_sync ==
    /\ exit_pc = "gpios_freed"
    /\ cb.pc = "idle"
    /\ exit_pc' = "timer_deleted"
    /\ light' = [light EXCEPT !.timer.pending = FALSE]
    /\ event' = NO_EVENT
    /\ prev_mode' = NO_MODE
    /\ call' = NO_CALL
    /\ UNCHANGED <<cb, gpio, jiffies, last_btn_0_irq_time, last_btn_1_irq_time>>

\* kfree(light), unregister_chrdev: mytraffic_exit returns.
mytraffic_exit_kfree ==
    /\ exit_pc = "timer_deleted"
    /\ exit_pc' = "unloaded"
    /\ event' = NO_EVENT
    /\ prev_mode' = NO_MODE
    /\ call' = [op |-> "cleanup_module"]
    /\ UNCHANGED <<cb, light, gpio, jiffies, last_btn_0_irq_time, last_btn_1_irq_time>>

NextExit ==
    \/ (exit_pc = "loaded" /\ Next)
    \/ mytraffic_exit_free_irq
    \/ (exit_pc \in {"irqs_freed", "gpios_freed"} /\ Tick)
    \/ (exit_pc \in {"irqs_freed", "gpios_freed"} /\ ButtonRelease)
    \/ (exit_pc \in {"irqs_freed", "gpios_freed"} /\ mytraffic_timer_callback)
    \/ mytraffic_exit_gpio_free
    \/ mytraffic_exit_del_timer_sync
    \/ mytraffic_exit_kfree

SpecExit == Init /\ [][NextExit]_vars

(***************************************************************************)
(* C14: on shutdown the pending timer is cancelled before teardown         *)
(* releases anything the TimerExpire step uses: once mytraffic_exit has    *)
(* released the first resource, no timer is pending and no TimerExpire     *)
(* step runs.                                                              *)
(***************************************************************************)
C14_TimerCancelledFirst ==
    exit_pc # "loaded" =>
        /\ ~light.timer.pending
        /\ event # EVENT_TIMER_EXPIRE

(***************************************************************************)
(* The controller with no button event: the timer expires, time passes,    *)
(* the rate is written and the status read, a button held at load may be   *)
(* released.  A pending kernel timer does expire: the callback is weakly   *)
(* fair.                                                                   *)
(***************************************************************************)
NextTimerOnly ==
    \/ Tick
    \/ ButtonRelease
    \/ mytraffic_timer_callback
    \/ mytraffic_read
    \/ mytraffic_write

SpecTimerOnly ==
    Init /\ [][NextTimerOnly]_vars /\ WF_vars(mytraffic_timer_callback)

(***************************************************************************)
(* C15: in Normal mode with pedestrian_present false and TimerExpire the   *)
(* only event, exactly one light is on at a time, each TimerExpire moves   *)
(* green to yellow, yellow to red and red to green, arming 1 cycle for     *)
(* yellow, 2 for red and 3 for green at the rate current when the phase    *)
(* is entered, and each of the three phases comes round again forever.     *)
(***************************************************************************)
\* The step from pattern from to pattern to, armed for k cycles.
PhaseStep(from, to, k) ==
    ( /\ event' = EVENT_TIMER_EXPIRE
      /\ light.status = from )
    => /\ light'.status = to
       /\ Driven(gpio') = to
       /\ light'.mode = NORMAL_MODE
       /\ ~light'.pedestrian_present
       /\ ArmedFor(light', jiffies, k, light.cycle_rate)

C15_NormalCycle ==
    /\ [](/\ light.mode = NORMAL_MODE
          /\ ~light.pedestrian_present
          /\ light.status \in {OnlyGreen, OnlyYellow, OnlyRed})
    /\ [][/\ PhaseStep(OnlyGreen, OnlyYellow, 1)
          /\ PhaseStep(OnlyYellow, OnlyRed, 2)
          /\ PhaseStep(OnlyRed, OnlyGreen, 3)
         ]_vars
    /\ []<>(light.status = OnlyGreen)
    /\ []<>(light.status = OnlyYellow)
    /\ []<>(light.status = OnlyRed)

\* The red phase has just been entered at a rate other than the initial one.
C15_Witness ==
    /\ event = EVENT_TIMER_EXPIRE
    /\ light.mode = NORMAL_MODE
    /\ light.status = OnlyRed
    /\ light.cycle_rate = 9
    /\ ArmedFor(light, jiffies, 2, 9)

(***************************************************************************)
(* C16: the flashing modes ignore pedestrian state.  From FlashingRed or   *)
(* FlashingYellow, whatever pedestrian_present and the pattern are, a step *)
(* that handles Button1Press or TimerExpire leaves the mode the same       *)
(* flashing mode (never PedestrianCall) and turns on no light other than   *)
(* the flashing one.                                                       *)
(***************************************************************************)
C16_FlashingIgnoresPedestrian ==
    [][( /\ event' \in {EVENT_BTN_1_PRESS, EVENT_TIMER_EXPIRE}
         /\ light.mode \in {FLASHING_RED, FLASHING_YELLOW} )
       => /\ light'.mode = light.mode
          /\ light'.status.green => light.status.green
          /\ light.mode = FLASHING_RED =>
                (light'.status.yellow => light.status.yellow)
          /\ light.mode = FLASHING_YELLOW =>
                (light'.status.red => light.status.red)
      ]_vars

(***************************************************************************)
(* C17: entering a flashing mode from another mode turns its light on at   *)
(* once: a step that changes the mode to FlashingRed ends with red on and  *)
(* yellow and green off, a step that changes the mode to FlashingYellow    *)
(* ends with yellow on and red and green off, whichever light was on       *)
(* before.                                                                 *)
(***************************************************************************)
C17_FlashingEntryLightOn ==
    [][/\ (light.mode # FLASHING_RED /\ light'.mode = FLASHING_RED)
             => light'.status = OnlyRed
       /\ (light.mode # FLASHING_YELLOW /\ light'.mode = FLASHING_YELLOW)
             => light'.status = OnlyYellow
      ]_vars

(***************************************************************************)
(* C18: event classification.  An accepted edge on a button produces       *)
(* exactly one event: BothButtonsPress if the other button reads pressed   *)
(* at that moment, the button's own event (Button0Press for button 0,      *)
(* Button1Press for button 1) otherwise; a discarded edge produces none;   *)
(* each completion of the timer produces exactly one TimerExpire, and no   *)
(* event arises in any other way.                                          *)
(***************************************************************************)
\* The event of an edge on button b accepted while the other button is at
\* level other_level.
EventOfEdge(other_level, single) ==
    IF other_level = 1 THEN EVENT_BOTH_BTNS_PRESS ELSE single

\* The timer completes in this step: it was pending and its callback ran.
TimerCompletes ==
    /\ light.timer.pending
    /\ ~EdgeOn(BTN_0)
    /\ ~EdgeOn(BTN_1)
    /\ light'.timer # light.timer

C18_Classification ==
    [][/\ (EdgeOn(BTN_0) /\ last_btn_0_irq_time' = jiffies
                         /\ ~debounced(jiffies, last_btn_0_irq_time))
             => event' = EventOfEdge(gpio[BTN_1], EVENT_BTN_0_PRESS)
       /\ (EdgeOn(BTN_1) /\ last_btn_1_irq_time' = jiffies
                         /\ ~debounced(jiffies, last_btn_1_irq_time))
             => event' = EventOfEdge(gpio[BTN_0], EVENT_BTN_1_PRESS)
       /\ (EdgeOn(BTN_0) /\ debounced(jiffies, last_btn_0_irq_time))
             => event' = NO_EVENT
       /\ (EdgeOn(BTN_1) /\ debounced(jiffies, last_btn_1_irq_time))
             => event' = NO_EVENT
       /\ TimerCompletes => event' = EVENT_TIMER_EXPIRE
       /\ event' = EVENT_TIMER_EXPIRE =>
             light.timer.pending /\ ~EdgeOn(BTN_0) /\ ~EdgeOn(BTN_1)
       /\ event' \in {EVENT_BTN_0_PRESS, EVENT_BTN_1_PRESS, EVENT_BOTH_BTNS_PRESS}
             => EdgeOn(BTN_0) \/ EdgeOn(BTN_1)
      ]_vars

\* An edge on button 1 was accepted while button 0 was held.
C18_Witness ==
    /\ event = EVENT_BOTH_BTNS_PRESS
    /\ last_btn_1_irq_time = jiffies
    /\ last_btn_0_irq_time # jiffies
    /\ gpio[BTN_0] = 1
    /\ gpio[BTN_1] = 1

(***************************************************************************)
(* The controller and its events alone, with a timer that does expire: the *)
(* callback of a pending timer runs (weak fairness).  The device is not    *)
(* opened, so the cycle rate is the one set at load.                       *)
(***************************************************************************)
NextEvents ==
    \/ Tick
    \/ ButtonRelease
    \/ btn_0_irq_handler
    \/ btn_1_irq_handler
    \/ mytraffic_timer_callback

SpecEventsFair ==
    Init /\ [][NextEvents]_vars /\ WF_vars(mytraffic_timer_callback)

(***************************************************************************)
(* C19: the controller never stalls.  While the module is loaded a timer   *)
(* deadline is pending after every completed step, every TimerExpire step  *)
(* ends with the timer armed again for a later jiffy, and TimerExpire      *)
(* events keep occurring forever.                                          *)
(***************************************************************************)
C19_NeverStalls ==
    /\ [](exit_pc = "loaded" => light.timer.pending)
    /\ [](event = EVENT_TIMER_EXPIRE => ulong_lt(jiffies, light.timer.expires))
    /\ []<>(event = EVENT_TIMER_EXPIRE)

\* A TimerExpire step in PedestrianCall armed the extended stop phase.
C19_Witness ==
    /\ event = EVENT_TIMER_EXPIRE
    /\ light.mode = PEDESTRIAN_MODE
    /\ light.timer.pending
    /\ light.timer.expires = ulong_add(jiffies, (5 * HZ) \div light.cycle_rate)

(***************************************************************************)
(* C20: once the extended stop phase of a pedestrian call has started      *)
(* (pedestrian_present set, red and yellow on, the 5-cycle timer pending), *)
(* a Button0Press or Button1Press that arrives before the timer expires    *)
(* does not end it: red and yellow stay on in the light pattern and        *)
(* pedestrian_present stays set.                                           *)
(***************************************************************************)
C20_ExtendedStopHolds ==
    [][( /\ light.pedestrian_present
         /\ light.status = RedAndYellow
         /\ light.timer.pending
         /\ event' \in {EVENT_BTN_0_PRESS, EVENT_BTN_1_PRESS} )
       => /\ light'.status = RedAndYellow
          /\ light'.pedestrian_present
      ]_vars

(***************************************************************************)
(* C21: an accepted rate write changes cycle_rate and nothing else: mode,  *)
(* light pattern, light outputs, pedestrian_present and the pending timer  *)
(* deadline are as before, so the phase in progress keeps the duration     *)
(* computed from the old rate; the new rate is used by the next step that  *)
(* arms the timer.                                                         *)
(***************************************************************************)
\* The deadlines a step at jiffies value now can arm at rate r: 1, 2, 3 or
\* 5 cycles, or the 10 ms poll of the lightbulb check.
DeadlinesAt(now, r) ==
    {ulong_add(now, (k * HZ) \div r) : k \in {1, 2, 3, 5}}
        \cup {ulong_add(now, msecs_to_jiffies(10))}

C21_WriteChangesRateOnly ==
    [][/\ (call'.op = "write" /\ call'.ret > 0)
          => /\ light'.mode = light.mode
             /\ light'.status = light.status
             /\ light'.pedestrian_present = light.pedestrian_present
             /\ light'.timer = light.timer
             /\ Driven(gpio') = Driven(gpio)
             /\ gpio' = gpio
       /\ ( /\ call.op = "write"
            /\ call.ret > 0
            /\ event' # NO_EVENT
            /\ light'.timer # light.timer )
          => \/ light'.timer.expires \in DeadlinesAt(jiffies, light.cycle_rate)
             \/ /\ light'.cycle_rate = 1
                /\ light'.timer.expires \in DeadlinesAt(jiffies, 1)
      ]_vars

\* The rate 9 was written during a green phase armed at the rate 1, and the
\* deadline is still the one of 3 cycles of a second.
C21_Witness ==
    /\ call.op = "write"
    /\ call.ret > 0
    /\ light.cycle_rate = 9
    /\ light.mode = NORMAL_MODE
    /\ light.status = OnlyGreen
    /\ light.timer = [pending |-> TRUE, expires |-> ulong_add(JiffiesAtLoad, 3 * HZ)]
====
